---- MODULE Spec2Model ----
(***************************************************************************)
(* Model of zealmcp: docset discovery (docsets.py discover_docsets),       *)
(* index search and ranking (search_docset), entry resolution              *)
(* (load_entry_html), truncation (truncate_text) and the tool dispatcher   *)
(* (server.py _search / _get_entry).                                       *)
(*                                                                         *)
(* A Python str is a sequence of one-character strings.                    *)
(***************************************************************************)
EXTENDS Integers, Sequences, FiniteSets, TLC

VARIABLES
    call,      \* the operation in progress and its arguments
    ret,       \* its outcome: [status |-> "ok" | "raise" | "none", ...]
    bundles,   \* discovery filesystem: the *.docset children of the directories
    store,     \* build_server's `docsets` dict, in insertion order
    tree,      \* the Documents directory: its path and the symlink inside it
    reads,     \* files whose content was read by the last operation
    pc,        \* position inside search_docset, or of the dispatcher
    conn,      \* the sqlite connection of the running search_docset
    opens,     \* number of connections opened by the running search_docset
    index,     \* the docSet.dsidx content (per bundle root under the dispatcher)
    rows,      \* rows fetched by the running search_docset
    exc        \* exception in flight inside search_docset's try block

vars == <<call, ret, bundles, store, tree, reads, pc, conn, opens, index, rows, exc>>

(***************************************************************************)
(* Bounds                                                                  *)
(***************************************************************************)
MaxTextLen == 4
MaxPathLen == 5
MaxRows == 6
MaxDirs == 2

(***************************************************************************)
(* Characters and strings                                                  *)
(***************************************************************************)
\* str.lower on the characters the model uses
LowerCh(c) ==
    CASE c = "A" -> "a"
      [] c = "B" -> "b"
      [] c = "P" -> "p"
      [] c = "Q" -> "q"
      [] OTHER -> c

Lower(s) == [i \in 1..Len(s) |-> LowerCh(s[i])]

\* str.isspace for one character
IsSpace(c) == c \in {" ", "\n", "\t"}

\* str.isalnum for one character
IsAlnum(c) == c \in {"a", "b", "p", "q", "A", "B", "P", "Q", "1", "5"}

\* code point order of the characters the model uses
Ord(c) ==
    CASE c = "\t" -> 9
      [] c = "\n" -> 10
      [] c = " " -> 32
      [] c = "#" -> 35
      [] c = "%" -> 37
      [] c = "-" -> 45
      [] c = "." -> 46
      [] c = "/" -> 47
      [] c = "1" -> 49
      [] c = "5" -> 53
      [] c = "?" -> 63
      [] c = "A" -> 65
      [] c = "B" -> 66
      [] c = "P" -> 80
      [] c = "Q" -> 81
      [] c = "_" -> 95
      [] c = "a" -> 97
      [] c = "b" -> 98
      [] c = "l" -> 108
      [] c = "p" -> 112
      [] c = "q" -> 113
      [] OTHER -> 0

\* s < t in Python's str ordering
RECURSIVE StrLess(_, _)
StrLess(s, t) ==
    IF t = <<>> THEN FALSE
    ELSE IF s = <<>> THEN TRUE
    ELSE IF Ord(s[1]) # Ord(t[1]) THEN Ord(s[1]) < Ord(t[1])
    ELSE StrLess(Tail(s), Tail(t))

\* s[:n] for n >= 0
Take(s, n) == SubSeq(s, 1, IF n < Len(s) THEN n ELSE Len(s))

\* str.rstrip()
RECURSIVE RStrip(_)
RStrip(s) ==
    IF s # <<>> /\ IsSpace(s[Len(s)]) THEN RStrip(SubSeq(s, 1, Len(s) - 1)) ELSE s

\* str.lstrip()
RECURSIVE LStrip(_)
LStrip(s) == IF s # <<>> /\ IsSpace(s[1]) THEN LStrip(Tail(s)) ELSE s

\* str.strip()
Strip(s) == LStrip(RStrip(s))

\* str.startswith
StartsWith(s, p) == Len(p) <= Len(s) /\ SubSeq(s, 1, Len(p)) = p

\* str.find: 0-based offset of the first occurrence, -1 when absent
Find(s, p) ==
    LET hits == {i \in 0..(Len(s) - Len(p)) : SubSeq(s, i + 1, i + Len(p)) = p}
    IN IF hits = {} THEN -1 ELSE CHOOSE i \in hits : \A j \in hits : i <= j

\* all sequences over S of length at most n
RECURSIVE SeqsUpTo(_, _)
SeqsUpTo(S, n) ==
    IF n = 0 THEN {<<>>}
    ELSE LET shorter == SeqsUpTo(S, n - 1)
         IN shorter \cup {Append(s, c) : s \in {t \in shorter : Len(t) = n - 1}, c \in S}

(***************************************************************************)
(* truncate_text                                                           *)
(***************************************************************************)
TruncationMarker ==
    <<"\n", "\n", "[", "T", "R", "U", "N", "C", "A", "T", "E", "D", "]">>

truncate_text_lt(text, max_chars) ==
    IF max_chars <= 0 \/ Len(text) < max_chars
    THEN text
    ELSE RStrip(Take(text, max_chars)) \o TruncationMarker

truncate_text(text, max_chars) ==
    IF max_chars <= 0 \/ Len(text) <= max_chars
    THEN text
    ELSE RStrip(Take(text, max_chars)) \o TruncationMarker

NoCall == [op |-> "none"]
NoRet == [status |-> "none"]

TextChars == {"a", " ", "\n"}

InitTruncate ==
    /\ call = NoCall
    /\ ret = NoRet
    /\ bundles = <<>>
    /\ store = <<>>
    /\ tree = <<>>
    /\ reads = {}
    /\ pc = "idle"
    /\ conn = "none"
    /\ opens = 0
    /\ index = <<>>
    /\ rows = <<>>
    /\ exc = "none"

TruncateText ==
    /\ call = NoCall
    /\ \E text \in SeqsUpTo(TextChars, MaxTextLen), max_chars \in (-1)..(MaxTextLen + 1) :
        /\ call' = [op |-> "truncate_text", text |-> text, max_chars |-> max_chars]
        /\ ret' = [status |-> "ok", value |-> truncate_text(text, max_chars)]
    /\ UNCHANGED <<bundles, store, tree, reads, pc, conn, opens, index, rows, exc>>

NextTruncate == TruncateText

SpecTruncate == InitTruncate /\ [][NextTruncate]_vars

\* C6 as stated: for 0 < k < len(text) the result is exactly the first k
\* characters of text followed by the marker (length k + len(marker)); for
\* k <= 0 or k >= len(text) the result is text itself.
C6_Original ==
    call.op = "truncate_text" =>
        IF 0 < call.max_chars /\ call.max_chars < Len(call.text)
        THEN ret.value = Take(call.text, call.max_chars) \o TruncationMarker
        ELSE ret.value = call.text

\* C6 amended: for 0 < k < len(text) the result is the first j <= k characters
\* of text followed by the non-empty marker, where j is the length of the
\* first k characters after their trailing whitespace is stripped; for k <= 0
\* or k >= len(text) the result is text itself, with no marker.
C6_Truncate ==
    call.op = "truncate_text" =>
        IF 0 < call.max_chars /\ call.max_chars < Len(call.text)
        THEN /\ TruncationMarker # <<>>
             /\ \E j \in 0..call.max_chars :
                  /\ ret.value = SubSeq(call.text, 1, j) \o TruncationMarker
                  /\ \A i \in (j + 1)..call.max_chars : IsSpace(call.text[i])
                  /\ j > 0 => ~IsSpace(call.text[j])
        ELSE ret.value = call.text

\* a cut that ends in whitespace was stripped before the marker was appended
C6_Witness ==
    /\ call.op = "truncate_text"
    /\ 0 < call.max_chars /\ call.max_chars < Len(call.text)
    /\ IsSpace(call.text[call.max_chars])
    /\ Len(ret.value) < call.max_chars + Len(TruncationMarker)

(***************************************************************************)
(* discover_docsets                                                        *)
(***************************************************************************)
MaxBundles == 3

\* _safe_docset_id, line 21: a character that is not alphanumeric, '-', '_'
\* or '.' becomes '-'
SafeCh(c) == IF IsAlnum(c) \/ c \in {"-", "_", "."} THEN c ELSE "-"

\* _safe_docset_id, line 23: "-".join(filter(None, normalized.split("-")));
\* gap records that a '-' was passed since the last kept character
RECURSIVE JoinNonEmptyParts(_, _, _)
JoinNonEmptyParts(s, acc, gap) ==
    IF s = <<>> THEN acc
    ELSE IF s[1] = "-" THEN JoinNonEmptyParts(Tail(s), acc, TRUE)
    ELSE JoinNonEmptyParts(Tail(s),
                           (IF gap /\ acc # <<>> THEN Append(acc, "-") ELSE acc) \o <<s[1]>>,
                           FALSE)

DefaultId == <<"d", "o", "c", "s", "e", "t">>

_safe_docset_id(name) ==
    LET stripped == Strip(name)
        normalized == JoinNonEmptyParts([i \in 1..Len(stripped) |-> SafeCh(stripped[i])],
                                        <<>>, FALSE)
    IN IF Lower(normalized) = <<>> THEN DefaultId ELSE Lower(normalized)

\* values plistlib.load can put under a key: absent, a string, an integer
Missing == [t |-> "missing"]
Str(s) == [t |-> "str", s |-> s]
IntVal(n) == [t |-> "int", n |-> n]

\* Python truthiness of a plist value
Truthy(v) == \/ v.t = "str" /\ v.s # <<>>
             \/ v.t = "int" /\ v.n # 0

\* lines 46-60: the name discover_docsets settles on for one bundle.
\* plist.kind: "absent" (no Info.plist), "unreadable" (open or load raises),
\* "notdict" (info.get raises AttributeError), "dict"
ResolveName(stem, plist) ==
    IF plist.kind # "dict" THEN Str(stem)
    ELSE IF Truthy(plist.CFBundleDisplayName) THEN plist.CFBundleDisplayName
    ELSE IF Truthy(plist.CFBundleName) THEN plist.CFBundleName
    ELSE IF Truthy(plist.DocSetPlatformFamily) THEN plist.DocSetPlatformFamily
    ELSE Str(stem)

\* directories the filesystem holds; a path is the sequence of its parts
ExistingDirs == {<<"p">>, <<"q", "p">>, <<"Q">>}
MissingDir == <<"m">>
AllDirs == ExistingDirs \cup {MissingDir}

\* Path.name of a directory
BaseName(dir) == dir[Len(dir)]

\* line 35: sorted(base_path.glob("*.docset")), the children of one directory
\* in path order
RECURSIVE SortedChildren(_)
SortedChildren(S) ==
    IF S = {} THEN <<>>
    ELSE LET first == CHOOSE e \in S :
                        \A f \in S \ {e} : StrLess(Append(e.stem, "."), Append(f.stem, "."))
         IN <<first>> \o SortedChildren(S \ {first})

\* lines 36-44: a child is a bundle when it is a directory holding both
\* Contents/Resources/docSet.dsidx and Contents/Resources/Documents
IsBundle(e) == e.is_dir /\ e.has_dsidx /\ e.has_documents

\* lines 30-44: the bundles found, in discovery order
RECURSIVE Candidates(_, _)
Candidates(dirs, fs) ==
    IF dirs = <<>> THEN <<>>
    ELSE LET base == dirs[1]
             listing == IF base \in ExistingDirs
                        THEN SortedChildren({e \in fs : e.dir = base})
                        ELSE <<>>
         IN SelectSeq(listing, IsBundle) \o Candidates(Tail(dirs), fs)

\* lines 62-71: the Docset appended for one bundle (name is a str here)
MakeDocset(e, name) ==
    [id |-> _safe_docset_id(name.s), name |-> name.s, root |-> [dir |-> e.dir, stem |-> e.stem]]

\* ids of a dict kept as a sequence of Docsets in insertion order
Keys(unique) == {unique[i].id : i \in 1..Len(unique)}

\* lines 75-82: one iteration of the de-duplication loop
DedupStepNoCheck(unique, d) == Append(unique, d)

DedupStep(unique, d) ==
    IF d.id \in Keys(unique)
    THEN LET suffix == _safe_docset_id(<<BaseName(d.root.dir)>>)
             alt_id == d.id \o <<"-">> \o suffix
         IN IF alt_id \in Keys(unique)
            THEN unique
            ELSE Append(unique, [d EXCEPT !.id = alt_id])
    ELSE Append(unique, d)

RECURSIVE Dedup(_, _)
Dedup(docsets, unique) ==
    IF docsets = <<>> THEN unique
    ELSE Dedup(Tail(docsets), DedupStep(unique, docsets[1]))

\* line 84: sorted(..., key=lambda d: d.name.lower()), a stable sort
RECURSIVE InsertByName(_, _)
InsertByName(sorted, d) ==
    IF sorted = <<>> THEN <<d>>
    ELSE IF StrLess(Lower(d.name), Lower(sorted[1].name))
         THEN <<d>> \o sorted
         ELSE <<sorted[1]>> \o InsertByName(Tail(sorted), d)

RECURSIVE SortByName(_)
SortByName(ds) ==
    IF ds = <<>> THEN <<>>
    ELSE InsertByName(SortByName(SubSeq(ds, 1, Len(ds) - 1)), ds[Len(ds)])

\* discover_docsets: the returned list, or the exception that escapes.
\* _safe_docset_id(name) at line 62 calls name.strip(), which raises
\* AttributeError outside the try block when name is not a str.
discover_docsets(dirs, fs) ==
    LET found == Candidates(dirs, fs)
        names == [i \in 1..Len(found) |-> ResolveName(found[i].stem, found[i].plist)]
    IN IF \E i \in 1..Len(found) : names[i].t # "str"
       THEN [status |-> "raise", error |-> "AttributeError"]
       ELSE [status |-> "ok",
             value |-> SortByName(Dedup([i \in 1..Len(found) |-> MakeDocset(found[i], names[i])],
                                        <<>>))]

\* server.py line 22: {d.id: d for d in discover_docsets(...)}; a repeated
\* key keeps its first position and takes the last value
RECURSIVE BuildStore(_, _)
BuildStore(ds, acc) ==
    IF ds = <<>> THEN acc
    ELSE LET d == ds[1]
         IN IF d.id \in Keys(acc)
            THEN BuildStore(Tail(ds), [i \in 1..Len(acc) |-> IF acc[i].id = d.id THEN d ELSE acc[i]])
            ELSE BuildStore(Tail(ds), Append(acc, d))

\* Info.plist contents
NoPlist == [kind |-> "absent"]
UnreadablePlist == [kind |-> "unreadable"]
NotDictPlist == [kind |-> "notdict"]
DictPlist(d, s, f) ==
    [kind |-> "dict", CFBundleDisplayName |-> d, CFBundleName |-> s, DocSetPlatformFamily |-> f]

PlistValues == {Missing, Str(<<>>), Str(<<"P">>), Str(<<" ">>), IntVal(0), IntVal(5)}

AllPlists ==
    {NoPlist, UnreadablePlist, NotDictPlist}
        \cup {DictPlist(d, s, f) : d \in PlistValues, s \in PlistValues, f \in PlistValues}

\* plists used when several directories are populated
FewPlists == {NoPlist, DictPlist(Str(<<"P">>), Missing, Missing),
              DictPlist(Str(<<"p", "-", "p">>), Missing, Missing)}

Stems == {<<"A">>, <<"P">>}

Entry(dir, stem, isdir, dsidx, docs, plist) ==
    [dir |-> dir, stem |-> stem, is_dir |-> isdir, has_dsidx |-> dsidx,
     has_documents |-> docs, plist |-> plist]

\* children of the kinds lines 36-44 skip
SkippedEntries(dir, stem) ==
    {Entry(dir, stem, FALSE, FALSE, FALSE, NoPlist),
     Entry(dir, stem, TRUE, FALSE, TRUE, NoPlist),
     Entry(dir, stem, TRUE, TRUE, FALSE, NoPlist)}

\* a filesystem holds at most one child per (directory, stem)
WellFormedFs(fs) ==
    /\ Cardinality(fs) <= MaxBundles
    /\ \A e \in fs, f \in fs : (e.dir = f.dir /\ e.stem = f.stem) => e = f

\* filesystems with several directories and few kinds of bundle
CollisionEntries ==
    UNION {{Entry(dir, stem, TRUE, TRUE, TRUE, pl) : pl \in FewPlists}
             \cup {Entry(dir, stem, TRUE, FALSE, TRUE, NoPlist)} :
           dir \in ExistingDirs, stem \in Stems}

\* filesystems with one directory and every kind of Info.plist
PlistEntries ==
    UNION {{Entry(<<"p">>, stem, TRUE, TRUE, TRUE, pl) : pl \in AllPlists}
             \cup SkippedEntries(<<"p">>, stem) :
           stem \in Stems}

RECURSIVE SubsetsUpTo(_, _)
SubsetsUpTo(S, n) ==
    IF n = 0 THEN {{}}
    ELSE LET smaller == SubsetsUpTo(S, n - 1)
         IN smaller \cup {T \cup {e} : T \in {U \in smaller : Cardinality(U) = n - 1}, e \in S}

InitDiscover ==
    /\ call = NoCall
    /\ ret = NoRet
    /\ \/ bundles \in {fs \in SubsetsUpTo(CollisionEntries, MaxBundles) : WellFormedFs(fs)}
       \/ bundles \in {fs \in SubsetsUpTo(PlistEntries, 2) : WellFormedFs(fs)}
    /\ store = <<>>
    /\ tree = <<>>
    /\ reads = {}
    /\ pc = "idle"
    /\ conn = "none"
    /\ opens = 0
    /\ index = <<>>
    /\ rows = <<>>
    /\ exc = "none"

\* build_server's call of discover_docsets on settings.docsets_paths
Discover ==
    /\ call = NoCall
    /\ \E dirs \in SeqsUpTo(AllDirs, MaxDirs) :
        /\ call' = [op |-> "discover_docsets", docsets_dirs |-> dirs]
        /\ ret' = discover_docsets(dirs, bundles)
        /\ store' = IF ret'.status = "ok" THEN BuildStore(ret'.value, <<>>) ELSE <<>>
    /\ UNCHANGED <<bundles, tree, reads, pc, conn, opens, index, rows, exc>>

NextDiscover == Discover

SpecDiscover == InitDiscover /\ [][NextDiscover]_vars

\* the valid bundles discover_docsets walks over, in discovery order
Found == Candidates(call.docsets_dirs, bundles)

\* C7: the list discover_docsets returns has pairwise-unique ids, and the
\* id-keyed Metadata Store built from it holds every returned docset.
C7_UniqueIds ==
    (call.op = "discover_docsets" /\ ret.status = "ok") =>
        /\ \A i \in 1..Len(ret.value), j \in 1..Len(ret.value) :
             ret.value[i].id = ret.value[j].id => i = j
        /\ store = ret.value

\* two bundles normalized to the same identifier and both were returned
C7_Witness ==
    /\ call.op = "discover_docsets" /\ ret.status = "ok"
    /\ \E i \in 1..Len(ret.value), j \in 1..Len(ret.value) :
         /\ i # j
         /\ _safe_docset_id(ret.value[i].name) = _safe_docset_id(ret.value[j].name)

\* C8: every valid bundle appears in the output, the first-discovered one
\* for an identifier under the bare identifier and every later one under
\* identifier-'-'-normalized parent directory name; no valid bundle is dropped.
\* (A bundle reached twice because its directory is listed twice is looked at
\* where it is first reached.)
C8_NoBundleDropped ==
    (call.op = "discover_docsets" /\ ret.status = "ok") =>
        \A k \in {n \in 1..Len(Found) : \A m \in 1..(n - 1) : Found[m] # Found[n]} :
            LET root == [dir |-> Found[k].dir, stem |-> Found[k].stem]
                bare == _safe_docset_id(ResolveName(Found[k].stem, Found[k].plist).s)
                first == \A m \in 1..(k - 1) :
                            _safe_docset_id(ResolveName(Found[m].stem, Found[m].plist).s) # bare
                wanted == IF first THEN bare
                          ELSE bare \o <<"-">> \o _safe_docset_id(<<BaseName(Found[k].dir)>>)
            IN \E i \in 1..Len(ret.value) :
                 ret.value[i].root = root /\ ret.value[i].id = wanted

\* C9: discover_docsets never fails because of a bundle's display-name
\* metadata: for every Info.plist content discovery completes.
C9_NeverFails ==
    call.op = "discover_docsets" => ret.status = "ok"

(***************************************************************************)
(* search_docset                                                           *)
(***************************************************************************)
MaxSearchLimit == 2

\* SQLite's LIKE folds the case of ASCII letters only
LikeFold(c) ==
    CASE c = "A" -> "a"
      [] c = "B" -> "b"
      [] c = "P" -> "p"
      [] c = "Q" -> "q"
      [] OTHER -> c

\* SQLite: s LIKE pattern, '%' matching any run and '_' any one character
RECURSIVE Like(_, _)
Like(pattern, s) ==
    IF pattern = <<>> THEN s = <<>>
    ELSE IF pattern[1] = "%"
         THEN Like(Tail(pattern), s) \/ (s # <<>> /\ Like(pattern, Tail(s)))
    ELSE IF s = <<>> THEN FALSE
    ELSE IF pattern[1] = "_" THEN Like(Tail(pattern), Tail(s))
    ELSE LikeFold(pattern[1]) = LikeFold(s[1]) /\ Like(Tail(pattern), Tail(s))

\* SQLite: LIMIT n keeps the first n rows, a negative n keeps them all
SqlLimit(rs, n) == IF n < 0 THEN rs ELSE Take(rs, n)

\* Python: s[:n], a negative n counting from the end
SliceTo(s, n) ==
    IF n >= 0 THEN Take(s, n)
    ELSE IF Len(s) + n > 0 THEN Take(s, Len(s) + n) ELSE <<>>

Max(a, b) == IF a >= b THEN a ELSE b
Min(a, b) == IF a <= b THEN a ELSE b

FetchFactor == 5

\* lines 124-130: the rows the SELECT ... WHERE name LIKE ? LIMIT ? returns
FetchRows(tableRows, q, limit) ==
    LET fetch_n == Max(limit * FetchFactor, limit)
        like_any == <<"%">> \o q \o <<"%">>
        matches(r) == Like(like_any, r.name)
    IN SqlLimit(SelectSeq(tableRows, matches), fetch_n)

\* lines 134-144: score(name)
Score(name, q) ==
    LET n == Lower(name)
        qq == Lower(q)
        idx == Find(n, qq)
    IN IF n = qq THEN <<0, Len(n)>>
       ELSE IF StartsWith(n, qq) THEN <<1, Len(n)>>
       ELSE IF idx >= 0 THEN <<2, idx>>
       ELSE <<3, Len(n)>>

\* Python's tuple order on two scores
ScoreLess(a, b) == a[1] < b[1] \/ (a[1] = b[1] /\ a[2] < b[2])

\* the key after k in tuple order, second components running over 0..maxsec
NextKey(k, maxsec) == IF k[2] < maxsec THEN <<k[1], k[2] + 1>> ELSE <<k[1] + 1, 0>>

\* the rows whose key is k or later, by ascending key, rows with the same key
\* in their order in rs
RECURSIVE FromKey(_, _, _, _)
FromKey(rs, q, k, maxsec) ==
    IF k[1] > 3 THEN <<>>
    ELSE SelectSeq(rs, LAMBDA r : Score(r.name, q) = k)
           \o FromKey(rs, q, NextKey(k, maxsec), maxsec)

\* line 146: sorted(rows, key=...), a stable sort
SortByScore(rs, q) ==
    LET lens == {Len(rs[i].name) : i \in 1..Len(rs)}
        maxsec == IF lens = {} THEN 0 ELSE CHOOSE m \in lens : \A l \in lens : l <= m
    IN FromKey(rs, q, <<0, 0>>, maxsec)

\* line 146: ranked = sorted(rows, key=...)[:limit]
RankedCutFirst(rs, q, limit) == SortByScore(SliceTo(rs, limit), q)

Ranked(rs, q, limit) == SliceTo(SortByScore(rs, q), limit)

\* lines 148-161: the SearchResult built for one ranked row
MakeResult(docset, r) ==
    [docset_id |-> docset.id, docset_name |-> docset.name, title |-> r.name,
     entry_type |-> r.type, path |-> r.path,
     source_uri |-> <<"zeal://docset/">> \o docset.id \o <<"/doc/">> \o r.path]

Results(docset, rs, q, limit) ==
    LET ranked == Ranked(rs, q, limit)
    IN [i \in 1..Len(ranked) |-> MakeResult(docset, ranked[i])]

\* lines 103-112: _get_search_table; "none" stands for the RuntimeError
GetSearchTable(idx) ==
    IF "searchIndex" \in idx.tables THEN "searchIndex"
    ELSE IF "SEARCHINDEX" \in idx.tables THEN "SEARCHINDEX"
    ELSE "none"

\* an index row as the test fixture inserts it
Row(name) == [name |-> name, type |-> "Guide", path |-> name \o <<".", "h", "t", "m", "l">>]

\* a docSet.dsidx file: openable (sqlite3.connect succeeds), readable (it is a
\* database, sqlite_master can be read), its tables, whether the search table
\* has the name/type/path columns, and that table's rows
Index(openable, readable, tables, columns, rs) ==
    [openable |-> openable, readable |-> readable, tables |-> tables,
     columns |-> columns, rows |-> rs]

RowNames == {<<"a">>, <<"A">>, <<"a", "b">>, <<"b", "a">>}

Queries == {<<>>, <<" ">>, <<"a">>, <<"A">>, <<"a", " ">>, <<"_">>, <<"a", "b">>}

RowSeqs(n) == {[i \in 1..Len(s) |-> Row(s[i])] : s \in SeqsUpTo(RowNames, n)}

GoodIndexes == {Index(TRUE, TRUE, {"searchIndex"}, TRUE, rs) : rs \in RowSeqs(MaxRows)}

OddIndexes ==
    {Index(o, r, t, c, rs) :
        o \in BOOLEAN, r \in BOOLEAN,
        t \in {{}, {"other"}, {"SEARCHINDEX"}, {"searchIndex", "SEARCHINDEX"}},
        c \in BOOLEAN, rs \in RowSeqs(1)}

TestDocset == [id |-> <<"p">>, name |-> <<"P">>, root |-> [dir |-> <<"p">>, stem |-> <<"P">>]]

InitSearch ==
    /\ call = NoCall
    /\ ret = NoRet
    /\ bundles = <<>>
    /\ store = <<TestDocset>>
    /\ tree = <<>>
    /\ reads = {}
    /\ pc = "idle"
    /\ conn = "none"
    /\ opens = 0
    /\ index \in GoodIndexes \cup OddIndexes
    /\ rows = <<>>
    /\ exc = "none"

\* the stripped query of the running call (line 116)
StrippedQuery == Strip(call.query)

\* lines 115-118: entry; a blank query returns [] at once
SearchBegin ==
    /\ pc = "idle"
    /\ \E query \in Queries, limit \in 1..MaxSearchLimit :
        /\ call' = [op |-> "search_docset", query |-> query, limit |-> limit]
        /\ IF Strip(query) = <<>>
           THEN /\ ret' = [status |-> "ok", value |-> <<>>]
                /\ pc' = "done"
           ELSE /\ ret' = NoRet
                /\ pc' = "connect"
    /\ UNCHANGED <<bundles, store, tree, reads, conn, opens, index, rows, exc>>

\* line 120: conn = _connect_readonly(...), before the try block
SearchConnect ==
    /\ pc = "connect"
    /\ IF index.openable
       THEN /\ conn' = "open"
            /\ opens' = opens + 1
            /\ pc' = "get_table"
            /\ ret' = ret
       ELSE /\ ret' = [status |-> "raise", error |-> "OperationalError"]
            /\ pc' = "done"
            /\ UNCHANGED <<conn, opens>>
    /\ UNCHANGED <<call, bundles, store, tree, reads, index, rows, exc>>

\* line 122: table = _get_search_table(conn)
SearchGetTable ==
    /\ pc = "get_table"
    /\ IF ~index.readable
       THEN exc' = "DatabaseError" /\ pc' = "finally"
       ELSE IF GetSearchTable(index) = "none"
       THEN exc' = "RuntimeError" /\ pc' = "finally"
       ELSE exc' = exc /\ pc' = "execute"
    /\ UNCHANGED <<call, ret, bundles, store, tree, reads, conn, opens, index, rows>>

\* lines 124-129: conn.execute(SELECT name, type, path ...)
SearchExecute ==
    /\ pc = "execute"
    /\ IF ~index.columns
       THEN exc' = "OperationalError" /\ pc' = "finally"
       ELSE exc' = exc /\ pc' = "fetch"
    /\ UNCHANGED <<call, ret, bundles, store, tree, reads, conn, opens, index, rows>>

\* line 130: rows = cur.fetchall()
SearchFetch ==
    /\ pc = "fetch"
    /\ rows' = FetchRows(index.rows, StrippedQuery, call.limit)
    /\ pc' = "finally"
    /\ UNCHANGED <<call, ret, bundles, store, tree, reads, conn, opens, index, exc>>

\* lines 131-132 without the finally: the close is skipped when an exception
\* is in flight
SearchCloseOnSuccessOnly ==
    /\ pc = "finally"
    /\ IF exc = "none"
       THEN conn' = "closed" /\ pc' = "rank" /\ ret' = ret
       ELSE conn' = conn /\ pc' = "done" /\ ret' = [status |-> "raise", error |-> exc]
    /\ exc' = "none"
    /\ UNCHANGED <<call, bundles, store, tree, reads, opens, index, rows>>

\* lines 131-132: finally: conn.close(), then the exception in flight, if
\* any, leaves search_docset
SearchFinally ==
    /\ pc = "finally"
    /\ conn' = "closed"
    /\ IF exc = "none"
       THEN pc' = "rank" /\ ret' = ret
       ELSE pc' = "done" /\ ret' = [status |-> "raise", error |-> exc]
    /\ exc' = "none"
    /\ UNCHANGED <<call, bundles, store, tree, reads, opens, index, rows>>

\* lines 134-161: rank, cut to limit, build the results, return
SearchRank ==
    /\ pc = "rank"
    /\ ret' = [status |-> "ok", value |-> Results(store[1], rows, StrippedQuery, call.limit)]
    /\ pc' = "done"
    /\ UNCHANGED <<call, bundles, store, tree, reads, conn, opens, index, rows, exc>>

NextSearch ==
    \/ SearchBegin
    \/ SearchConnect
    \/ SearchGetTable
    \/ SearchExecute
    \/ SearchFetch
    \/ SearchFinally
    \/ SearchRank

SpecSearch == InitSearch /\ [][NextSearch]_vars

\* name equals the stripped query case-insensitively
IsExact(name) == Lower(name) = Lower(StrippedQuery)

\* name only has the stripped query as a prefix
IsPrefixOnly(name) == ~IsExact(name) /\ StartsWith(Lower(name), Lower(StrippedQuery))

\* the first result is an exact match and no prefix-only result precedes an
\* exact one
ExactFirst ==
    /\ ret.value # <<>>
    /\ IsExact(ret.value[1].title)
    /\ \A i \in 1..Len(ret.value), j \in 1..Len(ret.value) :
         (IsPrefixOnly(ret.value[i].title) /\ IsExact(ret.value[j].title)) => j < i

\* a search of a queryable index with a non-blank query has returned
SearchReturned ==
    /\ call.op = "search_docset" /\ pc = "done" /\ ret.status = "ok"
    /\ StrippedQuery # <<>>

\* C2 as stated: whenever the index holds a row whose name equals q
\* case-insensitively, the returned list is non-empty, starts with an exact
\* match, and has no prefix-only row before an exact one.
C2_Original ==
    (SearchReturned /\ \E i \in 1..Len(index.rows) : IsExact(index.rows[i].name))
        => ExactFirst

\* C2 amended: the same, whenever a row whose name equals q case-insensitively
\* is among the rows fetched (the first max(5*limit, limit) rows, in index
\* order, whose name is LIKE %q%).
C2_ExactFirst ==
    (SearchReturned /\ \E i \in 1..Len(rows) : IsExact(rows[i].name))
        => ExactFirst

\* an exact match was fetched after a prefix-only row and more rows were
\* fetched than the limit keeps
C2_Witness ==
    /\ SearchReturned
    /\ Len(rows) > call.limit
    /\ \E i \in 1..Len(rows), j \in 1..Len(rows) :
         i < j /\ IsPrefixOnly(rows[i].name) /\ IsExact(rows[j].name)
    /\ IsExact(ret.value[1].title)

\* C10: search_docset opens at most one connection and only for a non-blank
\* query; a blank query returns [] with none opened; no connection is open
\* once the call has returned or raised; ranking starts only after the close.
C10_ConnectionScoped ==
    call.op = "search_docset" =>
        /\ opens <= 1
        /\ (conn = "none") = (opens = 0)
        /\ StrippedQuery = <<>> =>
             (opens = 0 /\ pc = "done" /\ ret = [status |-> "ok", value |-> <<>>])
        /\ pc = "done" => conn # "open"
        /\ pc = "rank" => conn = "closed"
        /\ (pc = "done" /\ ret.status = "ok" /\ StrippedQuery # <<>>) => conn = "closed"

\* the query failed inside the try block and the connection was closed on
\* the way out
C10_Witness ==
    /\ call.op = "search_docset" /\ pc = "done"
    /\ ret.status = "raise" /\ ret.error = "RuntimeError"
    /\ opens = 1 /\ conn = "closed"

(***************************************************************************)
(* load_entry_html                                                         *)
(*                                                                         *)
(* A filesystem path is the sequence of its parts below "/", each part a   *)
(* string.  The disk holds                                                 *)
(*    /a            directory                                              *)
(*    /a/a          directory, the docset's Documents directory            *)
(*    /a/a/a        file, an entry                                         *)
(*    /a/a/l        symbolic link to tree.link, when tree.has_link         *)
(*    /a/l          file outside Documents                                 *)
(*    /l            symbolic link to /a                                    *)
(* and tree.documents_path is how the Docset names its Documents directory.*)
(***************************************************************************)
DirA == <<<<"a">>>>
DocsDir == <<<<"a">>, <<"a">>>>
EntryFile == <<<<"a">>, <<"a">>, <<"a">>>>
DocsLink == <<<<"a">>, <<"a">>, <<"l">>>>
OutsideFile == <<<<"a">>, <<"l">>>>
RootLink == <<<<"l">>>>
Dangling == <<<<"z">>>>

\* os.lstat: what the disk holds at a canonical path
NodeType(p, t) ==
    IF p \in {<<>>, DirA, DocsDir} THEN "dir"
    ELSE IF p \in {EntryFile, OutsideFile} THEN "file"
    ELSE IF p = RootLink THEN "link"
    ELSE IF p = DocsLink /\ t.has_link THEN "link"
    ELSE "none"

\* os.readlink
LinkTarget(p, t) == IF p = RootLink THEN DirA ELSE t.link

\* line 166: path.lstrip("/")
RECURSIVE LStripSlash(_)
LStripSlash(s) == IF s # <<>> /\ s[1] = "/" THEN LStripSlash(Tail(s)) ELSE s

\* line 169: s.split(c, 1)[0]
RECURSIVE CutAt(_, _)
CutAt(s, c) ==
    IF s = <<>> \/ s[1] = c THEN <<>> ELSE <<s[1]>> \o CutAt(Tail(s), c)

\* lines 166-169: the on-disk relative path of an entry path
RelOf(path) == CutAt(CutAt(LStripSlash(path), "?"), "#")

\* the parts of a relative path string, split at "/"
RECURSIVE SplitParts(_, _)
SplitParts(s, cur) ==
    IF s = <<>> THEN <<cur>>
    ELSE IF s[1] = "/" THEN <<cur>> \o SplitParts(Tail(s), <<>>)
    ELSE SplitParts(Tail(s), Append(cur, s[1]))

\* pathlib: documents_path / rel drops empty and "." parts, keeps ".."
JoinPath(base, rel) ==
    base \o SelectSeq(SplitParts(rel, <<>>), LAMBDA part : part # <<>> /\ part # <<".">>)

\* Path.parent of a canonical path
Parent(p) == IF p = <<>> THEN <<>> ELSE SubSeq(p, 1, Len(p) - 1)

\* Path.resolve(), os.path.realpath with strict=False: cur is resolved, parts
\* are still to be walked
RECURSIVE RealPath(_, _, _)
RealPath(cur, parts, t) ==
    IF parts = <<>> THEN cur
    ELSE LET part == parts[1]
             rest == Tail(parts)
         IN IF part = <<>> \/ part = <<".">> THEN RealPath(cur, rest, t)
            ELSE IF part = <<".", ".">> THEN RealPath(Parent(cur), rest, t)
            ELSE IF NodeType(Append(cur, part), t) = "link"
                 THEN RealPath(RealPath(<<>>, LinkTarget(Append(cur, part), t), t), rest, t)
                 ELSE RealPath(Append(cur, part), rest, t)

Resolve(p, t) == RealPath(<<>>, p, t)

\* a lexical clean-up that walks ".." without asking the disk
RECURSIVE NormPath(_, _)
NormPath(cur, parts) ==
    IF parts = <<>> THEN cur
    ELSE IF parts[1] = <<".", ".">> THEN NormPath(Parent(cur), Tail(parts))
    ELSE NormPath(Append(cur, parts[1]), Tail(parts))

\* line 174: docs_root in full.parents or full == docs_root
Contained(docs_root, full) ==
    \/ \E n \in 0..(Len(full) - 1) : SubSeq(full, 1, n) = docs_root
    \/ full = docs_root

InvalidEntryPath == [status |-> "raise", error |-> "RuntimeError: Invalid entry path", read |-> {}]

\* load_entry_html with the containment check made on the joined path
\* without resolve()
load_entry_html_unresolved(t, path) ==
    LET rel == RelOf(path)
        full == Resolve(JoinPath(t.documents_path, rel), t)
    IN IF ~Contained(NormPath(<<>>, t.documents_path),
                     NormPath(<<>>, JoinPath(t.documents_path, rel)))
       THEN InvalidEntryPath
       ELSE IF NodeType(full, t) # "file"
       THEN [status |-> "raise", error |-> "FileNotFoundError", read |-> {}]
       ELSE [status |-> "ok", value |-> full, read |-> {full}]

\* load_entry_html: the file returned and the files read, or the exception
load_entry_html(t, path) ==
    LET rel == RelOf(path)
        full == Resolve(JoinPath(t.documents_path, rel), t)
        docs_root == Resolve(t.documents_path, t)
    IN IF ~Contained(docs_root, full)
       THEN InvalidEntryPath
       ELSE IF NodeType(full, t) # "file"
       THEN [status |-> "raise", error |-> "FileNotFoundError", read |-> {}]
       ELSE [status |-> "ok", value |-> full, read |-> {full}]

PathChars == {"/", ".", "?", "#", "a", "l"}

LinkTargets == {<<>>, DirA, DocsDir, EntryFile, OutsideFile, Dangling}

Trees == {[has_link |-> TRUE, link |-> l, documents_path |-> d] :
            l \in LinkTargets, d \in {DocsDir, <<<<"l">>, <<"a">>>>}}
           \cup {[has_link |-> FALSE, link |-> <<>>, documents_path |-> d] :
                   d \in {DocsDir, <<<<"l">>, <<"a">>>>}}

InitEntry ==
    /\ call = NoCall
    /\ ret = NoRet
    /\ bundles = <<>>
    /\ store = <<TestDocset>>
    /\ tree \in Trees
    /\ reads = {}
    /\ pc = "idle"
    /\ conn = "none"
    /\ opens = 0
    /\ index = <<>>
    /\ rows = <<>>
    /\ exc = "none"

LoadEntryHtml ==
    /\ call = NoCall
    /\ \E path \in SeqsUpTo(PathChars, MaxPathLen) :
        LET r == load_entry_html(tree, path)
        IN /\ call' = [op |-> "load_entry_html", path |-> path]
           /\ ret' = [f \in DOMAIN r \ {"read"} |-> r[f]]
           /\ reads' = r.read
    /\ UNCHANGED <<bundles, store, tree, pc, conn, opens, index, rows, exc>>

NextEntry == LoadEntryHtml

SpecEntry == InitEntry /\ [][NextEntry]_vars

\* the canonicalized target of the running call and the canonicalized
\* document root
CanonTarget == Resolve(tree.documents_path \o SplitParts(RelOf(call.path), <<>>), tree)
CanonRoot == Resolve(tree.documents_path, tree)

\* p is root or a descendant of it
IsWithin(root, p) == Len(root) <= Len(p) /\ \A i \in 1..Len(root) : p[i] = root[i]

\* C1: load_entry_html returns content only when the canonicalized target is
\* the canonicalized document root or a descendant of it, and what it reads
\* is that target; a target outside the root always gives the "Invalid entry
\* path" error, whether or not a file exists there, with nothing read.
C1_Contained ==
    call.op = "load_entry_html" =>
        /\ ret.status = "ok" =>
             (IsWithin(CanonRoot, CanonTarget) /\ ret.value = CanonTarget)
        /\ \A f \in reads : IsWithin(CanonRoot, f)
        /\ ~IsWithin(CanonRoot, CanonTarget) =>
             (ret.status = "raise" /\ ret.error = "RuntimeError: Invalid entry path"
              /\ reads = {})

\* a path through the symlink inside Documents reached the existing file
\* outside it and was refused
C1_Witness ==
    /\ call.op = "load_entry_html"
    /\ CanonTarget = OutsideFile
    /\ \E i \in 1..Len(call.path) : call.path[i] = "l"
    /\ \A i \in 1..Len(call.path) : call.path[i] # "."
    /\ ret.status = "raise" /\ reads = {}

(***************************************************************************)
(* html_to_text                                                            *)
(*                                                                         *)
(* Markup is a sequence of tokens: a tag ("<p>", "</p>", "<script>",       *)
(* "</script>") or one character of text.                                  *)
(***************************************************************************)
IsTag(tok) == tok \in {"<p>", "</p>", "<script>", "</script>"}

\* lines 9-10: tag.decompose() for script/style/noscript elements
RECURSIVE DropScripts(_, _)
DropScripts(toks, inside) ==
    IF toks = <<>> THEN <<>>
    ELSE IF toks[1] = "<script>" THEN DropScripts(Tail(toks), TRUE)
    ELSE IF toks[1] = "</script>" THEN DropScripts(Tail(toks), FALSE)
    ELSE IF inside THEN DropScripts(Tail(toks), TRUE)
    ELSE <<toks[1]>> \o DropScripts(Tail(toks), FALSE)

\* line 12: soup.get_text("\n"), the text runs between tags joined by "\n";
\* run is the text run being read, out what was emitted so far
RECURSIVE GetText(_, _, _)
GetText(toks, run, out) ==
    LET flushed == IF run = <<>> THEN out
                   ELSE IF out = <<>> THEN run
                   ELSE out \o <<"\n">> \o run
    IN IF toks = <<>> THEN flushed
       ELSE IF IsTag(toks[1]) THEN GetText(Tail(toks), <<>>, flushed)
       ELSE GetText(Tail(toks), Append(run, toks[1]), out)

\* str.splitlines()
RECURSIVE SplitLines(_, _)
SplitLines(s, cur) ==
    IF s = <<>> THEN (IF cur = <<>> THEN <<>> ELSE <<cur>>)
    ELSE IF s[1] = "\n" THEN <<cur>> \o SplitLines(Tail(s), <<>>)
    ELSE SplitLines(Tail(s), Append(cur, s[1]))

\* lines 14-23: drop a blank line that starts the text or follows a blank line
RECURSIVE Compact(_, _, _)
Compact(lines, compact, last_blank) ==
    IF lines = <<>> THEN compact
    ELSE IF lines[1] = <<>>
         THEN Compact(Tail(lines),
                      IF ~last_blank /\ compact # <<>> THEN Append(compact, <<>>) ELSE compact,
                      TRUE)
         ELSE Compact(Tail(lines), Append(compact, lines[1]), FALSE)

\* "\n".join(lines)
RECURSIVE JoinLines(_)
JoinLines(lines) ==
    IF lines = <<>> THEN <<>>
    ELSE IF Len(lines) = 1 THEN lines[1]
    ELSE lines[1] \o <<"\n">> \o JoinLines(Tail(lines))

html_to_text(html) ==
    LET text == GetText(DropScripts(html, FALSE), <<>>, <<>>)
        split == SplitLines(text, <<>>)
        lines == [i \in 1..Len(split) |-> Strip(split[i])]
    IN Strip(JoinLines(Compact(lines, <<>>, FALSE)))

\* the content of the entry file /a/a/a
EntryHtml ==
    <<"<script>", "b", "</script>", "<p>", "a", " ", "</p>", "\n", "\n", "<p>", "a", "a", "</p>">>

(***************************************************************************)
(* The tool dispatcher: build_server, _search, _get_entry                  *)
(***************************************************************************)
BigRows == 51

\* config.py line 10: Settings.max_chars
DefaultMaxChars == 20000

\* server.py line 35: limit: int = 10
DefaultLimit == 10

\* server.py line 37: the limit clamp
MaxLimit == 50

\* Python's None
None == [t |-> "none"]

AllSentinel == <<"a", "l", "l">>

\* search_docset as one call: the results, or the exception that leaves it
search_docset(docset, idx, query, limit) ==
    LET q == Strip(query)
    IN IF q = <<>> THEN [status |-> "ok", value |-> <<>>]
       ELSE IF ~idx.openable THEN [status |-> "raise", error |-> "OperationalError"]
       ELSE IF ~idx.readable THEN [status |-> "raise", error |-> "DatabaseError"]
       ELSE IF GetSearchTable(idx) = "none" THEN [status |-> "raise", error |-> "RuntimeError"]
       ELSE IF ~idx.columns THEN [status |-> "raise", error |-> "OperationalError"]
       ELSE [status |-> "ok",
             value |-> Results(docset, FetchRows(idx.rows, q, limit), q, limit)]

\* docsets.get(id): the Docset registered under a str id, or None
Lookup(st, id) ==
    IF id.t = "str" /\ id.s \in Keys(st)
    THEN (CHOOSE i \in 1..Len(st) : st[i].id = id.s)
    ELSE 0

\* server.py line 37: lim = max(1, min(int(limit), 50))
ClampLimitNoFloor(n) == Min(n, MaxLimit)

ClampLimit(n) == Max(1, Min(n, MaxLimit))

\* server.py lines 49-55 with the exception of a docset left to propagate
RECURSIVE CollectAllStrict(_, _, _, _)
CollectAllStrict(st, idx, q, lim) ==
    IF st = <<>> THEN [status |-> "ok", value |-> <<>>]
    ELSE LET r == search_docset(st[1], idx[st[1].root], q, lim)
             rest == CollectAllStrict(Tail(st), idx, q, lim)
         IN IF r.status # "ok" THEN r
            ELSE IF rest.status # "ok" THEN rest
            ELSE [status |-> "ok", value |-> r.value \o rest.value]

\* server.py lines 49-55: every docset searched in store order, a docset
\* whose search raises contributing nothing
RECURSIVE CollectAll(_, _, _, _)
CollectAll(st, idx, q, lim) ==
    IF st = <<>> THEN [status |-> "ok", value |-> <<>>]
    ELSE LET r == search_docset(st[1], idx[st[1].root], q, lim)
             rest == CollectAll(Tail(st), idx, q, lim)
         IN [status |-> "ok",
             value |-> (IF r.status = "ok" THEN r.value ELSE <<>>) \o rest.value]

UnknownDocset == [status |-> "raise", error |-> "ValueError: Unknown docset id"]

\* _search with the docsets.get() test left out: an unregistered id searches
\* every docset
_search_unchecked(st, idx, query, docset, limit) ==
    IF limit.t # "int" THEN [status |-> "raise", error |-> "TypeError"]
    ELSE LET lim == ClampLimit(limit.n)
             q == Strip(IF query.t = "str" THEN query.s ELSE <<>>)
         IN IF q = <<>> THEN [status |-> "ok", value |-> <<>>]
            ELSE IF Lookup(st, docset) # 0
                 THEN search_docset(st[Lookup(st, docset)], idx[st[Lookup(st, docset)].root], q, lim)
                 ELSE [status |-> "ok", value |-> SliceTo(CollectAll(st, idx, q, lim).value, lim)]

\* server.py lines 34-58: _search; int(None) raises TypeError
_search(st, idx, query, docset, limit) ==
    IF limit.t # "int" THEN [status |-> "raise", error |-> "TypeError"]
    ELSE LET lim == ClampLimit(limit.n)
             q == Strip(IF query.t = "str" THEN query.s ELSE <<>>)
         IN IF q = <<>> THEN [status |-> "ok", value |-> <<>>]
            ELSE IF docset.t = "str" /\ docset.s # <<>> /\ docset.s # AllSentinel
                 THEN IF Lookup(st, docset) = 0
                      THEN UnknownDocset
                      ELSE search_docset(st[Lookup(st, docset)],
                                         idx[st[Lookup(st, docset)].root], q, lim)
                 ELSE LET collected == CollectAll(st, idx, q, lim)
                      IN IF collected.status # "ok" THEN collected
                         ELSE [status |-> "ok", value |-> SliceTo(collected.value, lim)]

\* server.py lines 60-77: _get_entry
_get_entry(st, t, docset, path, max_chars) ==
    IF Lookup(st, docset) = 0 THEN UnknownDocset @@ [read |-> {}]
    ELSE LET d == st[Lookup(st, docset)]
             loaded == load_entry_html(t, path)
         IN IF loaded.status # "ok" THEN loaded
            ELSE LET text == html_to_text(EntryHtml)
                     mc == IF max_chars.t = "int" THEN max_chars.n ELSE DefaultMaxChars
                 IN [status |-> "ok",
                     read |-> loaded.read,
                     value |-> [docset_id |-> d.id, docset_name |-> d.name, path |-> path,
                                source_uri |-> <<"zeal://docset/">> \o d.id \o <<"/doc/">> \o path,
                                file |-> loaded.value,
                                text |-> truncate_text(text, mc)]]

\* the bundles the served filesystem may hold
ServerEntries ==
    {Entry(<<"p">>, <<"A">>, TRUE, TRUE, TRUE, NoPlist),
     Entry(<<"p">>, <<"P">>, TRUE, TRUE, TRUE, NoPlist),
     Entry(<<"Q">>, <<"A">>, TRUE, TRUE, TRUE, DictPlist(Str(<<"P">>), Missing, Missing))}

ServerDirs == <<<<"Q">>, <<"p">>>>

\* the indexes a served bundle may hold: the test fixture's shape, one
\* without a searchIndex table, and one with BigRows matching rows
ServerIndexes ==
    {Index(TRUE, TRUE, {"searchIndex"}, TRUE, <<Row(<<"a", "b">>), Row(<<"a">>), Row(<<"b", "a">>)>>),
     Index(TRUE, TRUE, {"other"}, TRUE, <<>>),
     Index(TRUE, TRUE, {"searchIndex"}, TRUE, [i \in 1..BigRows |-> Row(<<"a">>)])}

RootOf(e) == [dir |-> e.dir, stem |-> e.stem]

InitServer ==
    /\ call = NoCall
    /\ ret = NoRet
    /\ bundles \in SUBSET ServerEntries
    /\ store = BuildStore(discover_docsets(ServerDirs, bundles).value, <<>>)
    /\ tree \in {[has_link |-> TRUE, link |-> DirA, documents_path |-> DocsDir]}
    /\ reads = {}
    /\ pc = "idle"
    /\ conn = "none"
    /\ opens = 0
    /\ index \in [{RootOf(e) : e \in bundles} -> ServerIndexes]
    /\ rows = <<>>
    /\ exc = "none"

QueryArgs == {None, Str(<<>>), Str(<<" ">>), Str(<<"a">>), Str(<<" ", "A">>)}

DocsetArgs ==
    {None, Str(<<>>), Str(AllSentinel), Str(<<"a">>), Str(<<"p">>),
     Str(<<"p", "-", "p">>), Str(<<"b">>)}

LimitArgs ==
    {None} \cup {IntVal(n) : n \in {-1, 0, 1, 2, DefaultLimit, MaxLimit, MaxLimit + 1, 1000}}

EntryPaths ==
    {<<>>, <<"a">>, <<"/", "a", "#", "l">>, <<"l", "/", "l">>, <<".", ".", "/", "l">>, <<"l">>}

MaxCharsArgs == {None, IntVal(0), IntVal(2), IntVal(3)}

\* the "search" tool: server.py lines 125-129 and _search
CallSearch ==
    /\ pc = "idle"
    /\ \E query \in QueryArgs, docset \in DocsetArgs, limit \in LimitArgs :
        /\ call' = [op |-> "search", query |-> query, docset |-> docset, limit |-> limit]
        /\ ret' = _search(store, index, query, docset, limit)
    /\ reads' = {}
    /\ pc' = "done"
    /\ UNCHANGED <<bundles, store, tree, conn, opens, index, rows, exc>>

\* the "get_entry" tool: server.py lines 130-134 and _get_entry
CallGetEntry ==
    /\ pc = "idle"
    /\ \E docset \in DocsetArgs, path \in EntryPaths, max_chars \in MaxCharsArgs :
        LET r == _get_entry(store, tree, docset, path, max_chars)
        IN /\ call' = [op |-> "get_entry", docset |-> docset, path |-> path,
                       max_chars |-> max_chars]
           /\ ret' = [f \in DOMAIN r \ {"read"} |-> r[f]]
           /\ reads' = r.read
    /\ pc' = "done"
    /\ UNCHANGED <<bundles, store, tree, conn, opens, index, rows, exc>>

\* the result goes back to the caller and the server waits for the next call
Reply ==
    /\ pc = "done"
    /\ pc' = "idle"
    /\ call' = NoCall
    /\ ret' = NoRet
    /\ reads' = {}
    /\ UNCHANGED <<bundles, store, tree, conn, opens, index, rows, exc>>

NextServer == CallSearch \/ CallGetEntry \/ Reply

SpecServer == InitServer /\ [][NextServer]_vars

\* the docset argument names a docset: a non-empty string other than "all"
NamedDocset ==
    call.docset.t = "str" /\ call.docset.s # <<>> /\ call.docset.s # AllSentinel

\* the docset argument is not a registered id
Unregistered == call.docset.t # "str" \/ call.docset.s \notin Keys(store)

\* the query argument is not blank
NonBlankQuery == call.query.t = "str" /\ Strip(call.query.s) # <<>>

\* C3 as stated: search with a named, unregistered docset fails with "unknown
\* docset" for every query string and every integer limit; get_entry with an
\* unregistered docset fails with "unknown docset" and reads nothing.
C3_Original ==
    /\ (call.op = "search" /\ NamedDocset /\ Unregistered
          /\ call.query.t = "str" /\ call.limit.t = "int")
        => ret = UnknownDocset
    /\ (call.op = "get_entry" /\ Unregistered) => (ret = UnknownDocset /\ reads = {})

\* C3 amended: search with a non-blank query, an integer limit and a named
\* docset (a non-empty string other than "all") that is not registered fails
\* with "unknown docset"; get_entry with an unregistered docset fails with
\* "unknown docset" and reads nothing.
C3_UnknownDocset ==
    /\ (call.op = "search" /\ NamedDocset /\ Unregistered
          /\ NonBlankQuery /\ call.limit.t = "int")
        => ret = UnknownDocset
    /\ (call.op = "get_entry" /\ Unregistered) => (ret = UnknownDocset /\ reads = {})

\* a search for a non-blank query in an unregistered docset was refused while
\* docsets with matching rows were registered
C3_Witness ==
    /\ call.op = "search" /\ NamedDocset /\ Unregistered
    /\ NonBlankQuery /\ call.limit.t = "int"
    /\ Len(store) >= 2
    /\ ret = UnknownDocset

\* the limit the claim says the call behaves under
Clamped(n) == IF n <= 0 THEN 1 ELSE IF n > 50 THEN 50 ELSE n

\* C4: search with any integer limit gives what the same call gives with the
\* limit clamped into [1, 50], and never more than 50 results nor more than
\* the clamped limit, for a named docset and for "all".
C4_LimitClamped ==
    (call.op = "search" /\ call.limit.t = "int") =>
        /\ ret = _search(store, index, call.query, call.docset, IntVal(Clamped(call.limit.n)))
        /\ ret.status = "ok" =>
             (Len(ret.value) <= 50 /\ Len(ret.value) <= Clamped(call.limit.n))

\* a limit above 50 met more than 50 matching rows and 50 came back
C4_Witness ==
    /\ call.op = "search" /\ call.limit.t = "int" /\ call.limit.n > 50
    /\ ret.status = "ok" /\ Len(ret.value) = 50
    /\ \E r \in DOMAIN index : Len(index[r].rows) > 50

\* what one docset contributes to a search of all docsets
Contribution(d) ==
    LET r == search_docset(d, index[d.root], call.query.s, Clamped(call.limit.n))
    IN IF r.status = "ok" THEN r.value ELSE <<>>

RECURSIVE Concatenation(_)
Concatenation(st) ==
    IF st = <<>> THEN <<>> ELSE Contribution(st[1]) \o Concatenation(Tail(st))

\* the search covers every docset: docset absent or "all"
AllDocsets == call.docset = None \/ call.docset = Str(AllSentinel)

\* C5: a search of all docsets with a non-blank query returns exactly the
\* first clamped-limit elements of the concatenation, in Metadata Store order
\* (case-insensitive display-name order), of each docset's own search_docset
\* result, a docset that cannot be queried contributing nothing; it never
\* fails.
C5_Concatenation ==
    (call.op = "search" /\ AllDocsets /\ NonBlankQuery /\ call.limit.t = "int") =>
        /\ ret.status = "ok"
        /\ ret.value = Take(Concatenation(store), Clamped(call.limit.n))
        /\ \A i \in 1..Len(store), j \in 1..Len(store) :
             i < j => ~StrLess(Lower(store[j].name), Lower(store[i].name))

\* a docset without a searchIndex table was skipped, a later docset
\* contributed, and the concatenation was cut
C5_Witness ==
    /\ call.op = "search" /\ AllDocsets /\ NonBlankQuery /\ call.limit.t = "int"
    /\ ret.status = "ok" /\ ret.value # <<>>
    /\ Len(Concatenation(store)) > Len(ret.value)
    /\ \E i \in 1..Len(store), j \in 1..Len(store) :
         /\ i < j
         /\ search_docset(store[i], index[store[i].root], call.query.s, 1).status = "raise"
         /\ Contribution(store[j]) # <<>>

====
